---- MODULE Spec2Model ----
(***************************************************************************)
(* Model of src/src/sidechain.cpp: the deposit-address codec               *)
(* (GenerateDepositAddress / ParseDepositAddress), the script framing of   *)
(* sidechain objects (SidechainObj::GetScript / ParseSidechainObj) and the *)
(* WT list helpers (SelectUnspentWT / SortWTByFee).                        *)
(*                                                                         *)
(* Strings are sequences of one-character strings, byte vectors are        *)
(* sequences of 0..255.  C++ unsigned integers wider than TLC's integers   *)
(* are kept exactly, as 16-bit limbs: an unsigned int is a record          *)
(* [hi, lo], an unsigned long a little-endian sequence of limbs.           *)
(***************************************************************************)
EXTENDS Integers, Sequences, FiniteSets, TLC

VARIABLES
    build,          \* data model of the build: widths of size_t and unsigned long
    thisSidechain,  \* THIS_SIDECHAIN, the configured sidechain number
    origin,         \* how strAddressIn came about: none / generated / forged / typed
    strDestIn,      \* the destination given to GenerateDepositAddress
    strAddressIn,   \* the address string handed to ParseDepositAddress
    tamperedAt,     \* 0, or the 1-based position Tamper overwrote
    parseRet,       \* "none" before the call, then "true" / "false" / "throw"
    strAddressOut,  \* ParseDepositAddress' out-parameter
    nSidechainOut,  \* ParseDepositAddress' out-parameter (unsigned int)
    obj,            \* the sidechain object GetScript was called on
    scriptPubKey,   \* the script GetScript returned
    vch,            \* the byte vector handed to ParseSidechainObj
    vchFrom,        \* how vch came about: none / stripped / retagged / fed
    parsed,         \* ParseSidechainObj's outcome
    vWTIn,          \* the WT list before the last list operation
    vWT,            \* the WT list
    listOp          \* the last list operation

addrVars  == <<build, thisSidechain, origin, strDestIn, strAddressIn, tamperedAt,
               parseRet, strAddressOut, nSidechainOut>>
frameVars == <<obj, scriptPubKey, vch, vchFrom, parsed>>
listVars  == <<vWTIn, vWT, listOp>>
vars      == <<addrVars, frameVars, listVars>>

----------------------------------------------------------------------------
(* Bounds of the model *)

MaxDestLen == 2     \* longest destination string
MaxRawLen  == 4     \* longest typed-in address string
MaxStrLen  == 1     \* longest string member of a sidechain object
MaxVchLen  == 2     \* longest byte vector made up from scratch
MaxListLen == 4     \* longest WT list

----------------------------------------------------------------------------
(* Characters *)

Digits    == <<"0","1","2","3","4","5","6","7","8","9">>
HexDigits == <<"0","1","2","3","4","5","6","7","8","9","a","b","c","d","e","f">>
Lower     == <<"a","b","c","d","e","f","g","h","i","j","k","l","m",
               "n","o","p","q","r","s","t","u","v","w","x","y","z">>

Range(f) == { f[i] : i \in DOMAIN f }

IsDigit(c)  == c \in Range(Digits)
DigitVal(c) == CHOOSE d \in 0..9 : Digits[d + 1] = c
\* isspace() in the "C" locale
IsSpace(c)  == c \in {" ", "\t", "\n", "\r", "\f"}

\* The byte value of a character (ASCII)
Ord(c) ==
    CASE c = " "  -> 32
      [] c = "\t" -> 9
      [] c = "\n" -> 10
      [] c = "\r" -> 13
      [] c = "\f" -> 12
      [] c = "+"  -> 43
      [] c = "-"  -> 45
      [] c = "_"  -> 95
      [] IsDigit(c) -> 48 + DigitVal(c)
      [] c \in Range(Lower) -> 96 + (CHOOSE i \in 1..26 : Lower[i] = c)

\* All sequences over S of length 0..n
SeqsUpTo(S, n) == UNION { [1..k -> S] : k \in 0..n }

----------------------------------------------------------------------------
(* Data models the program is built for *)

Builds == { [name |-> "ILP32", sizeBits |-> 32, ulongBits |-> 32],
            [name |-> "LLP64", sizeBits |-> 64, ulongBits |-> 32],
            [name |-> "LP64",  sizeBits |-> 64, ulongBits |-> 64] }

----------------------------------------------------------------------------
(* unsigned int: 32 bits as two 16-bit limbs *)

U32(n)    == [hi |-> n \div 65536, lo |-> n % 65536]      \* for 0 <= n < 2^31
U32Max    == [hi |-> 65535, lo |-> 65535]

U32Add(a, b) ==
    LET l == a.lo + b.lo
    IN  [hi |-> (a.hi + b.hi + l \div 65536) % 65536, lo |-> l % 65536]

U32Neg(a)    == U32Add([hi |-> 65535 - a.hi, lo |-> 65535 - a.lo], U32(1))
U32Sub(a, b) == U32Add(a, U32Neg(b))

\* a >= n and a > n for an unsigned int a and a size n < 2^31
U32GeNat(a, n) == IF a.hi >= 32768 THEN TRUE ELSE a.hi * 65536 + a.lo >= n
U32GtNat(a, n) == IF a.hi >= 32768 THEN TRUE ELSE a.hi * 65536 + a.lo > n

\* min(a, n) for an unsigned int a and n < 2^31
U32MinNat(a, n) == IF U32GeNat(a, n) THEN n ELSE a.hi * 65536 + a.lo

----------------------------------------------------------------------------
(* std::string *)

NPOS == -1      \* std::string::npos, the all-ones size_t

\* find_first_of / find_last_of for a one-character set: 0-based position or NPOS
find_first_of(s, c) ==
    IF \E i \in 1..Len(s) : s[i] = c
    THEN (CHOOSE i \in 1..Len(s) : s[i] = c /\ \A j \in 1..(i - 1) : s[j] # c) - 1
    ELSE NPOS

find_last_of(s, c) ==
    IF \E i \in 1..Len(s) : s[i] = c
    THEN (CHOOSE i \in 1..Len(s) : s[i] = c /\ \A j \in (i + 1)..Len(s) : s[j] # c) - 1
    ELSE NPOS

\* size_t + 1 (npos + 1 wraps to 0) and size_t -> unsigned int
SizeInc(p)   == IF p = NPOS THEN 0 ELSE p + 1
SizeToU32(p) == IF p = NPOS THEN U32Max ELSE U32(p)

\* unsigned int == std::string::npos: the unsigned int is widened to size_t
EqNpos(a) == build.sizeBits = 32 /\ a = U32Max

\* s.substr(pos, n): throws std::out_of_range when pos > size(),
\* otherwise the characters [pos, pos + min(n, size() - pos))
substr(s, pos, n) ==
    IF U32GtNat(pos, Len(s)) THEN [thrown |-> TRUE, str |-> <<>>]
    ELSE LET p == pos.hi * 65536 + pos.lo
             k == U32MinNat(n, Len(s) - p)
         IN  [thrown |-> FALSE, str |-> SubSeq(s, p + 1, p + k)]

\* std::to_string of a small non-negative int
RECURSIVE to_string(_)
to_string(n) ==
    IF n < 10 THEN <<Digits[n + 1]>>
    ELSE to_string(n \div 10) \o <<Digits[(n % 10) + 1]>>

----------------------------------------------------------------------------
(* std::stoul(str) (pos = 0, base 10) over an unsigned long of             *)
(* build.ulongBits bits                                                    *)

\* limbs * m + carry; the last element of the result is the carry out
RECURSIVE MulAdd(_, _, _)
MulAdd(limbs, m, carry) ==
    IF limbs = <<>> THEN <<carry>>
    ELSE LET t == Head(limbs) * m + carry
         IN  <<t % 65536>> \o MulAdd(Tail(limbs), m, t \div 65536)

\* the digits of s from position i on, accumulated into acc
RECURSIVE Accumulate(_, _, _, _)
Accumulate(s, i, acc, overflow) ==
    IF i > Len(s) \/ ~IsDigit(s[i]) THEN [limbs |-> acc, overflow |-> overflow, any |-> FALSE]
    ELSE LET r    == MulAdd(acc, 10, DigitVal(s[i]))
             n    == Len(acc)
             rest == Accumulate(s, i + 1, SubSeq(r, 1, n), overflow \/ r[n + 1] # 0)
         IN  [rest EXCEPT !.any = TRUE]

\* two's complement of a limb sequence
NegLimbs(limbs) ==
    LET inv == [i \in 1..Len(limbs) |-> 65535 - limbs[i]]
    IN  SubSeq(MulAdd(inv, 1, 1), 1, Len(limbs))

RECURSIVE SkipSpace(_, _)
SkipSpace(s, i) == IF i <= Len(s) /\ IsSpace(s[i]) THEN SkipSpace(s, i + 1) ELSE i

stoul(s) ==
    LET i0   == SkipSpace(s, 1)
        sign == IF i0 <= Len(s) /\ s[i0] \in {"+", "-"} THEN s[i0] ELSE ""
        i1   == IF sign = "" THEN i0 ELSE i0 + 1
        zero == [k \in 1..(build.ulongBits \div 16) |-> 0]
        acc  == Accumulate(s, i1, zero, FALSE)
    IN  IF ~acc.any THEN [thrown |-> "invalid_argument", limbs |-> zero]
        ELSE IF acc.overflow THEN [thrown |-> "out_of_range", limbs |-> zero]
        ELSE [thrown |-> "",
              limbs  |-> IF sign = "-" THEN NegLimbs(acc.limbs) ELSE acc.limbs]

\* unsigned long -> unsigned int: the low 32 bits
NarrowToU32(limbs) == [hi |-> limbs[2], lo |-> limbs[1]]

----------------------------------------------------------------------------
(* CSHA256 and HexStr *)

\* CSHA256().Write(data).Finalize(): a deterministic 32-byte digest of the bytes
RECURSIVE Mix(_, _)
Mix(h, s) ==
    IF s = <<>> THEN h
    ELSE Mix((h * 131 + Ord(Head(s)) + 1) % 1000003, Tail(s))

CSHA256(s) ==
    LET h == Mix(7, s)
    IN  [i \in 1..32 |-> (h * i + (h \div (i + 1))) % 256]

\* HexStr: two lowercase hex characters per byte
HexStr(bytes) ==
    [i \in 1..(2 * Len(bytes)) |->
        LET b == bytes[(i + 1) \div 2]
        IN  IF i % 2 = 1 THEN HexDigits[(b \div 16) + 1] ELSE HexDigits[(b % 16) + 1]]

----------------------------------------------------------------------------
(* GenerateDepositAddress *)

\* The variant that hashes the string before the second delimiter is appended
GenerateDepositAddress_HashBeforeDelim(strDest) ==
    LET body    == <<"s">> \o to_string(thisSidechain) \o <<"_">> \o strDest
        strHash == HexStr(CSHA256(body))
    IN  body \o <<"_">> \o substr(strHash, U32(0), U32(6)).str

GenerateDepositAddress(strDest) ==
    LET strNoCheck == <<"s">> \o to_string(thisSidechain) \o <<"_">> \o strDest \o <<"_">>
        strHash    == HexStr(CSHA256(strNoCheck))
    IN  strNoCheck \o substr(strHash, U32(0), U32(6)).str

----------------------------------------------------------------------------
(* ParseDepositAddress *)

\* The variant without the try / catch: the exception of std::stoul escapes
ParseSidechainNumber_NoCatch(strSidechain) ==
    LET r == stoul(strSidechain)
    IN  IF r.thrown # "" THEN [outcome |-> "escaped", value |-> U32(0)]
        ELSE [outcome |-> "ok", value |-> NarrowToU32(r.limbs)]

\* try { nSidechainOut = std::stoul(strSidechain); } catch (...) { return false; }
ParseSidechainNumber(strSidechain) ==
    LET r == stoul(strSidechain)
    IN  IF r.thrown # "" THEN [outcome |-> "caught", value |-> U32(0)]
        ELSE [outcome |-> "ok", value |-> NarrowToU32(r.limbs)]

\* The variant that compares one character too few
ChecksumDiffers_Short(strCheck, strHash) ==
    SubSeq(strCheck, 1, 5) # substr(strHash, U32(0), U32(5)).str

\* strCheck != strHash.substr(0, 6)
ChecksumDiffers(strCheck, strHash) ==
    strCheck # substr(strHash, U32(0), U32(6)).str

Outcome(r, out, n) == [ret |-> r, strAddressOut |-> out, nSidechainOut |-> n]

\* The call ParseDepositAddress(addr, strAddressOut, nSidechainOut) where the
\* out-parameters hold out0 and n0 on entry
ParseDepositAddress(addr, out0, n0) ==
    IF addr = <<>> THEN Outcome("false", out0, n0)
    ELSE IF Head(addr) # "s" THEN Outcome("false", out0, n0)
    ELSE
    LET delim1 == SizeToU32(SizeInc(find_first_of(addr, "_")))
        delim2 == SizeToU32(find_last_of(addr, "_"))
        size   == Len(addr)
    IN
    IF EqNpos(delim1) \/ EqNpos(delim2) THEN Outcome("false", out0, n0)
    ELSE IF U32GeNat(delim1, size) \/ U32GeNat(U32Add(delim2, U32(1)), size)
    THEN Outcome("false", out0, n0)
    ELSE
    LET strSidechain == substr(addr, U32(1), delim1)
    IN
    IF strSidechain.thrown THEN Outcome("throw", out0, n0)
    ELSE IF strSidechain.str = <<>> THEN Outcome("false", out0, n0)
    ELSE
    LET num == ParseSidechainNumber(strSidechain.str)
    IN
    IF num.outcome = "escaped" THEN Outcome("throw", out0, n0)
    ELSE IF num.outcome = "caught" THEN Outcome("false", out0, n0)
    ELSE IF U32GtNat(num.value, 255) THEN Outcome("false", out0, num.value)
    ELSE
    LET dest == substr(addr, delim1, U32Sub(delim2, delim1))
    IN
    IF dest.thrown THEN Outcome("throw", out0, num.value)
    ELSE IF dest.str = <<>> THEN Outcome("false", dest.str, num.value)
    ELSE
    LET strNoCheck == substr(addr, U32(0), U32Add(delim2, U32(1)))
    IN
    IF strNoCheck.thrown THEN Outcome("throw", dest.str, num.value)
    ELSE IF strNoCheck.str = <<>> THEN Outcome("false", dest.str, num.value)
    ELSE
    LET strHash  == HexStr(CSHA256(strNoCheck.str))
        strCheck == substr(addr, U32Add(delim2, U32(1)), U32(size))
    IN
    IF Len(strHash) # 64 THEN Outcome("false", dest.str, num.value)
    ELSE IF strCheck.thrown THEN Outcome("throw", dest.str, num.value)
    ELSE IF Len(strCheck.str) # 6 THEN Outcome("false", dest.str, num.value)
    ELSE IF ChecksumDiffers(strCheck.str, strHash) THEN Outcome("false", dest.str, num.value)
    ELSE Outcome("true", dest.str, num.value)

----------------------------------------------------------------------------
(* Inputs of the address codec *)

DestChars   == {"a", "_"}
Dests       == SeqsUpTo(DestChars, MaxDestLen) \ {<<>>}
TamperChars == {"_", "0", "z"}
RawChars    == {"s", "_", "5", "a", "+"}

Str(ds) == [i \in 1..Len(ds) |-> Digits[ds[i] + 1]]

\* Decimal numerals around the limits of uint8, unsigned int and unsigned long
Numerals ==
    { <<>>, Str(<<0>>), Str(<<5>>), Str(<<0, 7>>), Str(<<2, 5, 5>>), Str(<<2, 5, 6>>),
      Str(<<0, 2, 5, 6>>),
      Str(<<4, 2, 9, 4, 9, 6, 7, 2, 9, 5>>),                                 \* 2^32 - 1
      Str(<<4, 2, 9, 4, 9, 6, 7, 2, 9, 6>>),                                 \* 2^32
      Str(<<4, 2, 9, 4, 9, 6, 7, 3, 0, 1>>),                                 \* 2^32 + 5
      Str(<<4, 2, 9, 4, 9, 6, 7, 5, 5, 2>>),                                 \* 2^32 + 256
      Str(<<1, 8, 4, 4, 6, 7, 4, 4, 0, 7, 3, 7, 0, 9, 5, 5, 1, 3, 6, 1>>),   \* 2^64 - 255
      Str(<<1, 8, 4, 4, 6, 7, 4, 4, 0, 7, 3, 7, 0, 9, 5, 5, 1, 6, 1, 5>>),   \* 2^64 - 1
      Str(<<1, 8, 4, 4, 6, 7, 4, 4, 0, 7, 3, 7, 0, 9, 5, 5, 1, 6, 1, 6>>) }  \* 2^64

\* What may stand between the leading character and the first '_'
IndexFields ==
    { pre \o n \o post : pre \in {<<>>, <<"+">>, <<"-">>, <<" ">>},
                         n \in Numerals,
                         post \in {<<>>, <<"x">>, <<" ">>} }

\* Everything of an address up to its checksum: one '_' or two
Prefixes ==
    { <<lead>> \o f \o <<"_">> \o tail :
        lead \in {"s", "x"}, f \in IndexFields,
        tail \in {<<>>} \cup { d \o <<"_">> : d \in Dests \cup {<<>>} } }

----------------------------------------------------------------------------
(* The states before any call *)

AddrIdle ==
    /\ origin = "none"
    /\ strDestIn = <<>>
    /\ strAddressIn = <<>>
    /\ tamperedAt = 0
    /\ parseRet = "none"
    /\ strAddressOut = <<>>
    /\ nSidechainOut = U32(0)

FrameIdle ==
    /\ obj = [variant |-> "none"]
    /\ scriptPubKey = <<>>
    /\ vch = <<>>
    /\ vchFrom = "none"
    /\ parsed = [kind |-> "none"]

ListIdle ==
    /\ vWTIn = <<>>
    /\ vWT = <<>>
    /\ listOp = "none"

----------------------------------------------------------------------------
(* Actions of the address codec *)

\* strAddressIn = GenerateDepositAddress(strDest)
Generate(strDest) ==
    /\ origin = "none"
    /\ origin' = "generated"
    /\ strDestIn' = strDest
    /\ strAddressIn' = GenerateDepositAddress(strDest)
    /\ UNCHANGED <<build, thisSidechain, tamperedAt, parseRet, strAddressOut, nSidechainOut>>
    /\ UNCHANGED <<frameVars, listVars>>

\* One of the final 6 characters of a generated address is replaced
Tamper(i, c) ==
    /\ origin = "generated"
    /\ tamperedAt = 0
    /\ parseRet = "none"
    /\ LET pos == Len(strAddressIn) - 6 + i
       IN  /\ strAddressIn[pos] # c
           /\ strAddressIn' = [strAddressIn EXCEPT ![pos] = c]
           /\ tamperedAt' = pos
    /\ UNCHANGED <<build, thisSidechain, origin, strDestIn, parseRet, strAddressOut,
                   nSidechainOut>>
    /\ UNCHANGED <<frameVars, listVars>>

\* An address put together by hand: a prefix and the first k hex characters
\* of its digest
Forge(prefix, k) ==
    /\ origin = "none"
    /\ origin' = "forged"
    /\ strAddressIn' = prefix \o SubSeq(HexStr(CSHA256(prefix)), 1, k)
    /\ UNCHANGED <<build, thisSidechain, strDestIn, tamperedAt, parseRet, strAddressOut,
                   nSidechainOut>>
    /\ UNCHANGED <<frameVars, listVars>>

\* Any short string
Type(s) ==
    /\ origin = "none"
    /\ origin' = "typed"
    /\ strAddressIn' = s
    /\ UNCHANGED <<build, thisSidechain, strDestIn, tamperedAt, parseRet, strAddressOut,
                   nSidechainOut>>
    /\ UNCHANGED <<frameVars, listVars>>

\* parseRet = ParseDepositAddress(strAddressIn, strAddressOut, nSidechainOut)
Parse ==
    /\ origin # "none"
    /\ parseRet = "none"
    /\ LET r == ParseDepositAddress(strAddressIn, strAddressOut, nSidechainOut)
       IN  /\ parseRet' = r.ret
           /\ strAddressOut' = r.strAddressOut
           /\ nSidechainOut' = r.nSidechainOut
    /\ UNCHANGED <<build, thisSidechain, origin, strDestIn, strAddressIn, tamperedAt>>
    /\ UNCHANGED <<frameVars, listVars>>

\* Addresses that GenerateDepositAddress made, possibly damaged, are parsed
InitGen ==
    /\ build \in Builds
    /\ thisSidechain \in 0..255
    /\ AddrIdle /\ FrameIdle /\ ListIdle

NextGen ==
    \/ \E d \in Dests : Generate(d)
    \/ \E i \in 1..6, c \in TamperChars : Tamper(i, c)
    \/ Parse

SpecGen == InitGen /\ [][NextGen]_vars

\* Arbitrary strings are parsed
InitParse ==
    /\ build \in Builds
    /\ thisSidechain = 0
    /\ AddrIdle /\ FrameIdle /\ ListIdle

NextParse ==
    \/ \E p \in Prefixes, k \in 5..7 : Forge(p, k)
    \/ \E s \in SeqsUpTo(RawChars, MaxRawLen) : Type(s)
    \/ Parse

SpecParse == InitParse /\ [][NextParse]_vars

----------------------------------------------------------------------------
(* Reading an address the way its format describes it *)

Underscores(addr)     == { i \in 1..Len(addr) : addr[i] = "_" }
FirstUnderscore(addr) == CHOOSE i \in Underscores(addr) : \A j \in Underscores(addr) : i <= j
LastUnderscore(addr)  == CHOOSE i \in Underscores(addr) : \A j \in Underscores(addr) : i >= j

\* The characters between the leading 's' and the first '_'
IndexFieldOf(addr) == SubSeq(addr, 2, FirstUnderscore(addr) - 1)

AllDigits(f) == \A i \in 1..Len(f) : IsDigit(f[i])

RECURSIVE StripZeros(_)
StripZeros(f) == IF f # <<>> /\ Head(f) = "0" THEN StripZeros(Tail(f)) ELSE f

\* The number a string of at most 3 digits denotes
RECURSIVE SmallValue(_)
SmallValue(f) ==
    IF f = <<>> THEN 0 ELSE 10 * SmallValue(SubSeq(f, 1, Len(f) - 1)) + DigitVal(f[Len(f)])

\* The digits f denote a number greater than 255
DenotesAbove255(f) ==
    LET g == StripZeros(f)
    IN  Len(g) > 3 \/ (Len(g) = 3 /\ SmallValue(g) > 255)

Parsed == parseRet # "none"

----------------------------------------------------------------------------
(* Claims about the address codec *)

\* C1: address round trip. ParseDepositAddress applied to the string that
\* GenerateDepositAddress returned for a non-empty destination (underscores
\* allowed) and a sidechain number in 0..255 accepts, and returns exactly that
\* destination and that sidechain number.
AddressRoundTrip ==
    (origin = "generated" /\ tamperedAt = 0 /\ Parsed) =>
        /\ parseRet = "true"
        /\ strAddressOut = strDestIn
        /\ nSidechainOut = U32(thisSidechain)

\* A generated address for sidechain 255 with a destination that holds an
\* underscore has been parsed and accepted
AddressRoundTripWitness ==
    /\ origin = "generated" /\ tamperedAt = 0
    /\ thisSidechain = 255
    /\ strDestIn = <<"_", "a">>
    /\ parseRet = "true"

\* C3: checksum tamper detection. A generated address with any single one of
\* its final 6 characters replaced by a different character ('_' included) is
\* rejected.
TamperRejected ==
    (origin = "generated" /\ tamperedAt # 0 /\ Parsed) => parseRet = "false"

\* The last character of a generated address was replaced by '_', an earlier
\* one by another character, and the parse rejected
TamperRejectedWitness ==
    /\ origin = "generated" /\ parseRet = "false"
    /\ \/ tamperedAt = Len(strAddressIn) /\ strAddressIn[tamperedAt] = "_"
       \/ tamperedAt = Len(strAddressIn) - 5 /\ strAddressIn[tamperedAt] = "z"

\* C4: index range rejection. Every address whose index digits denote a number
\* greater than 255, however large, is rejected whatever destination and
\* checksum follow.
IndexAbove255Rejected ==
    (/\ Parsed
     /\ strAddressIn # <<>> /\ Head(strAddressIn) = "s"
     /\ Underscores(strAddressIn) # {}
     /\ IndexFieldOf(strAddressIn) # <<>>
     /\ AllDigits(IndexFieldOf(strAddressIn))
     /\ DenotesAbove255(IndexFieldOf(strAddressIn)))
    => parseRet = "false"

\* C6: address parsing never fails abnormally. For every input string the call
\* returns true or false; no exception of std::stoul or substr escapes.
ParseNeverThrows == parseRet \in {"none", "true", "false"}

\* An index field std::stoul cannot convert (no digits, or too large for an
\* unsigned long) was parsed and the call returned false
ParseNeverThrowsWitness ==
    /\ parseRet = "false"
    /\ strAddressIn # <<>> /\ Head(strAddressIn) = "s"
    /\ Cardinality(Underscores(strAddressIn)) >= 2
    /\ stoul(IndexFieldOf(strAddressIn)).thrown # ""

\* C9: destination extraction. Whenever an address is accepted it holds at
\* least two underscores, and the returned destination is the non-empty
\* substring strictly between the first and the last of them.
DestinationBetweenDelimiters ==
    parseRet = "true" =>
        /\ Cardinality(Underscores(strAddressIn)) >= 2
        /\ strAddressOut # <<>>
        /\ strAddressOut = SubSeq(strAddressIn, FirstUnderscore(strAddressIn) + 1,
                                  LastUnderscore(strAddressIn) - 1)

\* C10: the index field is strictly decimal. Whenever an address is accepted,
\* the characters between the leading 's' and the first underscore are a
\* non-empty string of decimal digits and the returned sidechain number is the
\* number they denote.
IndexStrictlyDecimal ==
    parseRet = "true" =>
        LET f == IndexFieldOf(strAddressIn)
        IN  /\ f # <<>>
            /\ AllDigits(f)
            /\ ~DenotesAbove255(f)
            /\ nSidechainOut = U32(SmallValue(StripZeros(f)))

----------------------------------------------------------------------------
(* Sidechain objects (declared in sidechain.h)                             *)
(*                                                                         *)
(* An object is a record: its C++ type in the field variant, then its data *)
(* members.  uint8_t and char members are bytes, std::string members and   *)
(* transactions are byte sequences, uint256 members are sequences of 32    *)
(* bytes, int / uint32_t members are unsigned int records and CAmount      *)
(* members are sequences of four 16-bit limbs, least significant first.    *)

\* The tag and status constants are declared in sidechain.h; the model needs
\* them distinct and below 128 (they are compared as char)
DB_SIDECHAIN_WT_OP      == 87      \* 'W'
DB_SIDECHAIN_WTPRIME_OP == 80      \* 'P'
DB_SIDECHAIN_DEPOSIT_OP == 68      \* 'D'

WT_UNSPENT    == 117               \* 'u'
WT_IN_WTPRIME == 112               \* 'p'
WT_SPENT      == 115               \* 's'

WTPRIME_CREATED == 99              \* 'c'
WTPRIME_FAILED  == 102             \* 'f'
WTPRIME_SPENT   == 115             \* 's'

OP_RETURN == 106                   \* 0x6a

Tags == {DB_SIDECHAIN_WT_OP, DB_SIDECHAIN_WTPRIME_OP, DB_SIDECHAIN_DEPOSIT_OP}

\* A 64-bit amount below 2^31 as limbs, and any amount from its limbs
Amount(n) == <<n % 65536, n \div 65536, 0, 0>>

SidechainWT(nSidechain, strDestination, amount, mainchainFee, status, hashBlindWTX) ==
    [variant |-> "SidechainWT", sidechainop |-> DB_SIDECHAIN_WT_OP,
     nSidechain |-> nSidechain, strDestination |-> strDestination, amount |-> amount,
     mainchainFee |-> mainchainFee, status |-> status, hashBlindWTX |-> hashBlindWTX]

SidechainWTPrime(nSidechain, wtPrime, nHeight, status) ==
    [variant |-> "SidechainWTPrime", sidechainop |-> DB_SIDECHAIN_WTPRIME_OP,
     nSidechain |-> nSidechain, wtPrime |-> wtPrime, nHeight |-> nHeight, status |-> status]

SidechainDeposit(nSidechain, strDest, amtUserPayout, dtx, nBurnIndex, nTx, hashMainchainBlock) ==
    [variant |-> "SidechainDeposit", sidechainop |-> DB_SIDECHAIN_DEPOSIT_OP,
     nSidechain |-> nSidechain, strDest |-> strDest, amtUserPayout |-> amtUserPayout,
     dtx |-> dtx, nBurnIndex |-> nBurnIndex, nTx |-> nTx,
     hashMainchainBlock |-> hashMainchainBlock]

----------------------------------------------------------------------------
(* Serialization primitives of the data stream *)

\* 16-bit limbs, least significant first, as little-endian bytes and back
RECURSIVE SerLimbs(_)
SerLimbs(limbs) ==
    IF limbs = <<>> THEN <<>>
    ELSE <<Head(limbs) % 256, Head(limbs) \div 256>> \o SerLimbs(Tail(limbs))

LimbsOf(bytes) == [i \in 1..(Len(bytes) \div 2) |-> bytes[2 * i - 1] + 256 * bytes[2 * i]]

SerU32(a) == SerLimbs(<<a.lo, a.hi>>)
U32Of(bytes) == [hi |-> LimbsOf(bytes)[2], lo |-> LimbsOf(bytes)[1]]

\* A byte sequence shorter than 253 bytes: its length in one byte, then the bytes
SerBytes(bytes) == <<Len(bytes)>> \o bytes

\* Reading k bytes; the stream throws when fewer are left
ReadN(ds, k) ==
    IF Len(ds) < k THEN [ok |-> FALSE, val |-> <<>>, rest |-> <<>>]
    ELSE [ok |-> TRUE, val |-> SubSeq(ds, 1, k), rest |-> SubSeq(ds, k + 1, Len(ds))]

\* Reading a length-prefixed byte sequence.  A first byte of 253 or more
\* announces at least 253 bytes, more than any vector of the model holds
\* (or a non-canonical length): both throw.
ReadBytes(ds) ==
    IF Len(ds) = 0 \/ Head(ds) >= 253 THEN [ok |-> FALSE, val |-> <<>>, rest |-> <<>>]
    ELSE ReadN(Tail(ds), Head(ds))

----------------------------------------------------------------------------
(* Serialize / Unserialize of the three variants: the tag first, then the  *)
(* members in declaration order                                            *)

SerializeWT(o) ==
    <<o.sidechainop, o.nSidechain>> \o SerBytes(o.strDestination) \o SerLimbs(o.amount)
        \o SerLimbs(o.mainchainFee) \o <<o.status>> \o o.hashBlindWTX

SerializeWTPrime(o) ==
    <<o.sidechainop, o.nSidechain>> \o SerBytes(o.wtPrime) \o SerU32(o.nHeight)
        \o <<o.status>>

SerializeDeposit(o) ==
    <<o.sidechainop, o.nSidechain>> \o SerBytes(o.strDest) \o SerLimbs(o.amtUserPayout)
        \o SerBytes(o.dtx) \o SerU32(o.nBurnIndex) \o SerU32(o.nTx)
        \o o.hashMainchainBlock

UnserializeWT(ds) ==
    LET op   == ReadN(ds, 1)
        n    == ReadN(op.rest, 1)
        dest == ReadBytes(n.rest)
        amt  == ReadN(dest.rest, 8)
        fee  == ReadN(amt.rest, 8)
        st   == ReadN(fee.rest, 1)
        h    == ReadN(st.rest, 32)
    IN  IF op.ok /\ n.ok /\ dest.ok /\ amt.ok /\ fee.ok /\ st.ok /\ h.ok
        THEN [ok |-> TRUE,
              object |-> [SidechainWT(n.val[1], dest.val, LimbsOf(amt.val),
                                      LimbsOf(fee.val), st.val[1], h.val)
                          EXCEPT !.sidechainop = op.val[1]]]
        ELSE [ok |-> FALSE]

UnserializeWTPrime(ds) ==
    LET op == ReadN(ds, 1)
        n  == ReadN(op.rest, 1)
        tx == ReadBytes(n.rest)
        ht == ReadN(tx.rest, 4)
        st == ReadN(ht.rest, 1)
    IN  IF op.ok /\ n.ok /\ tx.ok /\ ht.ok /\ st.ok
        THEN [ok |-> TRUE,
              object |-> [SidechainWTPrime(n.val[1], tx.val, U32Of(ht.val), st.val[1])
                          EXCEPT !.sidechainop = op.val[1]]]
        ELSE [ok |-> FALSE]

UnserializeDeposit(ds) ==
    LET op   == ReadN(ds, 1)
        n    == ReadN(op.rest, 1)
        dest == ReadBytes(n.rest)
        amt  == ReadN(dest.rest, 8)
        tx   == ReadBytes(amt.rest)
        burn == ReadN(tx.rest, 4)
        ntx  == ReadN(burn.rest, 4)
        h    == ReadN(ntx.rest, 32)
    IN  IF op.ok /\ n.ok /\ dest.ok /\ amt.ok /\ tx.ok /\ burn.ok /\ ntx.ok /\ h.ok
        THEN [ok |-> TRUE,
              object |-> [SidechainDeposit(n.val[1], dest.val, LimbsOf(amt.val), tx.val,
                                           U32Of(burn.val), U32Of(ntx.val), h.val)
                          EXCEPT !.sidechainop = op.val[1]]]
        ELSE [ok |-> FALSE]

----------------------------------------------------------------------------
(* SidechainObj::GetScript and ParseSidechainObj *)

\* The data stream GetScript fills: the object serialized as its tag says
SerializeByTag(o) ==
    IF o.sidechainop = DB_SIDECHAIN_WT_OP THEN SerializeWT(o)
    ELSE IF o.sidechainop = DB_SIDECHAIN_WTPRIME_OP THEN SerializeWTPrime(o)
    ELSE IF o.sidechainop = DB_SIDECHAIN_DEPOSIT_OP THEN SerializeDeposit(o)
    ELSE <<>>

\* The variant whose header lacks the marker byte
GetScript_NoMarker(o) == <<172, 220, 246, 111>> \o SerializeByTag(o)

\* OP_RETURN, 0xAC 0xDC 0xF6 0x6F, then the serialization
GetScript(o) == <<OP_RETURN, 172, 220, 246, 111>> \o SerializeByTag(o)

Null == [kind |-> "NULL"]
\* What comes of `new T; obj->Unserialize(ds); return obj;`
Made(r) == IF r.ok THEN [kind |-> "object", object |-> r.object] ELSE [kind |-> "throw"]

\* The variant whose last branch is not guarded by the deposit tag
ParseSidechainObj_LastBranchOpen(v) ==
    IF Len(v) = 0 THEN Null
    ELSE IF v[1] = DB_SIDECHAIN_WT_OP THEN Made(UnserializeWT(v))
    ELSE IF v[1] = DB_SIDECHAIN_WTPRIME_OP THEN Made(UnserializeWTPrime(v))
    ELSE Made(UnserializeDeposit(v))

ParseSidechainObj(v) ==
    IF Len(v) = 0 THEN Null
    ELSE IF v[1] = DB_SIDECHAIN_WT_OP THEN Made(UnserializeWT(v))
    ELSE IF v[1] = DB_SIDECHAIN_WTPRIME_OP THEN Made(UnserializeWTPrime(v))
    ELSE IF v[1] = DB_SIDECHAIN_DEPOSIT_OP THEN Made(UnserializeDeposit(v))
    ELSE Null

----------------------------------------------------------------------------
(* Inputs of the framing codec *)

Hashes   == { [i \in 1..32 |-> 0], [i \in 1..32 |-> 171] }
ObjStrs  == SeqsUpTo({97, 95}, MaxStrLen)
Txs      == { <<>>, <<1, 0, 87>> }
Amounts  == { Amount(0), Amount(70000), <<0, 0, 32768, 7>> }
Heights  == { U32(0), U32(70000) }
Chains   == { 0, 255 }
Bytes    == { 0, DB_SIDECHAIN_DEPOSIT_OP, DB_SIDECHAIN_WTPRIME_OP, DB_SIDECHAIN_WT_OP,
              88, 255 }

WTs ==
    { SidechainWT(n, d, a, f, st, h) :
        n \in Chains, d \in ObjStrs, a \in {Amount(0), Amount(70000)}, f \in Amounts,
        st \in {WT_UNSPENT, WT_IN_WTPRIME, WT_SPENT}, h \in Hashes }

WTPrimes ==
    { SidechainWTPrime(n, tx, ht, st) :
        n \in Chains, tx \in Txs, ht \in Heights,
        st \in {WTPRIME_CREATED, WTPRIME_FAILED, WTPRIME_SPENT} }

Deposits ==
    { SidechainDeposit(n, d, a, tx, b, t, h) :
        n \in Chains, d \in ObjStrs, a \in Amounts, tx \in Txs, b \in Heights,
        t \in {U32(0), U32(3)}, h \in Hashes }

----------------------------------------------------------------------------
(* Actions of the framing codec *)

\* scriptPubKey = o.GetScript()
Encode(o) ==
    /\ obj.variant = "none"
    /\ vchFrom = "none"
    /\ obj' = o
    /\ scriptPubKey' = GetScript(o)
    /\ UNCHANGED <<vch, vchFrom, parsed>>
    /\ UNCHANGED <<addrVars, listVars>>

\* The caller drops the script's first 5 bytes
Strip ==
    /\ obj.variant # "none"
    /\ vchFrom = "none"
    /\ vch' = SubSeq(scriptPubKey, 6, Len(scriptPubKey))
    /\ vchFrom' = "stripped"
    /\ UNCHANGED <<obj, scriptPubKey, parsed>>
    /\ UNCHANGED <<addrVars, listVars>>

\* The first byte of a serialization is overwritten
Retag(b) ==
    /\ vchFrom = "stripped"
    /\ parsed.kind = "none"
    /\ vch # <<>>
    /\ vch[1] # b
    /\ vch' = [vch EXCEPT ![1] = b]
    /\ vchFrom' = "retagged"
    /\ UNCHANGED <<obj, scriptPubKey, parsed>>
    /\ UNCHANGED <<addrVars, listVars>>

\* A serialization loses its end
Cut(k) ==
    /\ vchFrom = "stripped"
    /\ parsed.kind = "none"
    /\ k < Len(vch)
    /\ vch' = SubSeq(vch, 1, k)
    /\ vchFrom' = "cut"
    /\ UNCHANGED <<obj, scriptPubKey, parsed>>
    /\ UNCHANGED <<addrVars, listVars>>

\* Any short byte vector
Feed(v) ==
    /\ obj.variant = "none"
    /\ vchFrom = "none"
    /\ vch' = v
    /\ vchFrom' = "fed"
    /\ UNCHANGED <<obj, scriptPubKey, parsed>>
    /\ UNCHANGED <<addrVars, listVars>>

\* parsed = ParseSidechainObj(vch)
Decode ==
    /\ vchFrom # "none"
    /\ parsed.kind = "none"
    /\ parsed' = ParseSidechainObj(vch)
    /\ UNCHANGED <<obj, scriptPubKey, vch, vchFrom>>
    /\ UNCHANGED <<addrVars, listVars>>

InitFrame ==
    /\ build = CHOOSE b \in Builds : b.name = "LP64"
    /\ thisSidechain = 0
    /\ AddrIdle /\ FrameIdle /\ ListIdle

NextFrame ==
    \/ \E o \in WTs \cup WTPrimes \cup Deposits : Encode(o)
    \/ Strip
    \/ \E b \in Bytes : Retag(b)
    \/ \E k \in 0..(Len(vch) - 1) : Cut(k)
    \/ \E v \in SeqsUpTo(Bytes, MaxVchLen) : Feed(v)
    \/ Decode

SpecFrame == InitFrame /\ [][NextFrame]_vars

----------------------------------------------------------------------------
(* Claims about the framing codec *)

\* C2: frame round trip. For an object of any of the three variants, the bytes
\* of GetScript() after its first 5 bytes, given to ParseSidechainObj, yield an
\* object of the same variant with every field equal to the original's.
FrameRoundTrip ==
    (vchFrom = "stripped" /\ parsed.kind # "none") =>
        /\ SubSeq(scriptPubKey, 1, 5) = <<OP_RETURN, 172, 220, 246, 111>>
        /\ parsed.kind = "object"
        /\ parsed.object = obj

\* A deposit with a non-empty destination and a non-empty transaction went
\* through GetScript, lost its header and was parsed back
FrameRoundTripWitness ==
    /\ vchFrom = "stripped"
    /\ parsed.kind = "object"
    /\ obj.variant = "SidechainDeposit"
    /\ obj.strDest # <<>> /\ obj.dtx # <<>>

VariantOfTag(b) ==
    CASE b = DB_SIDECHAIN_WT_OP      -> "SidechainWT"
      [] b = DB_SIDECHAIN_WTPRIME_OP -> "SidechainWTPrime"
      [] b = DB_SIDECHAIN_DEPOSIT_OP -> "SidechainDeposit"

\* C5: unknown-tag decode. ParseSidechainObj returns NULL for the empty vector
\* and for every vector whose first byte is none of the three tags; it returns
\* an object only when the first byte is a tag, and then the object is of the
\* variant that tag names.
UnknownTagDecode ==
    parsed.kind # "none" =>
        /\ (vch = <<>> \/ vch[1] \notin Tags) => parsed = Null
        /\ parsed.kind = "object" =>
              /\ vch # <<>> /\ vch[1] \in Tags
              /\ parsed.object.variant = VariantOfTag(vch[1])
              /\ parsed.object.sidechainop = vch[1]

\* A complete serialization whose first byte was overwritten by a byte that is
\* no tag was parsed, and no object came back
UnknownTagDecodeWitness ==
    /\ vchFrom = "retagged"
    /\ vch[1] = 255
    /\ Len(vch) > 40
    /\ parsed = Null

----------------------------------------------------------------------------
(* SelectUnspentWT and SortWTByFee *)

\* a > b for two int64_t given as limbs (two's complement)
RECURSIVE LimbsGt(_, _)
LimbsGt(a, b) ==
    IF a = <<>> THEN FALSE
    ELSE LET n == Len(a)
         IN  IF a[n] # b[n] THEN a[n] > b[n]
             ELSE LimbsGt(SubSeq(a, 1, n - 1), SubSeq(b, 1, n - 1))

Int64Gt(a, b) ==
    LET na == a[4] >= 32768
        nb == b[4] >= 32768
    IN  IF na # nb THEN nb ELSE LimbsGt(a, b)

\* The variant that orders by ascending fee
CompareWTMainchainFee_Less(a, b) == Int64Gt(b.mainchainFee, a.mainchainFee)

\* CompareWTMainchainFee::operator()
CompareWTMainchainFee(a, b) == Int64Gt(a.mainchainFee, b.mainchainFee)

\* v without its element at position i
Without(v, i) == SubSeq(v, 1, i - 1) \o SubSeq(v, i + 1, Len(v))

\* std::sort(first, last, comp): every arrangement of v in which no element
\* is followed by one that comp puts before it (the order of equivalent
\* elements is unspecified)
RECURSIVE StdSort(_)
StdSort(v) ==
    IF v = <<>> THEN { <<>> }
    ELSE UNION { { <<v[i]>> \o rest : rest \in StdSort(Without(v, i)) } :
                 i \in { k \in 1..Len(v) :
                           \A j \in 1..Len(v) : ~CompareWTMainchainFee(v[j], v[k]) } }

SortWTByFee(v) == StdSort(v)

\* The variant that removes only the spent WTs
IsNotUnspent_OnlySpent(wt) == wt.status = WT_SPENT

\* [](const SidechainWT& wt) { return wt.status != WT_UNSPENT; }
IsNotUnspent(wt) == wt.status # WT_UNSPENT

\* vWT.erase(std::remove_if(vWT.begin(), vWT.end(), pred), vWT.end()):
\* the elements pred rejects are moved to the front in order, the rest is erased
RECURSIVE RemoveIf(_)
RemoveIf(v) ==
    IF v = <<>> THEN <<>>
    ELSE IF IsNotUnspent(Head(v)) THEN RemoveIf(Tail(v))
    ELSE <<Head(v)>> \o RemoveIf(Tail(v))

SelectUnspentWT(v) == RemoveIf(v)

----------------------------------------------------------------------------
(* Inputs and actions of the list helpers *)

ZeroHash == [i \in 1..32 |-> 0]

\* Three unspent WTs with the fees 1, 3, 5, a spent and a pending one with the
\* fee 3, and one of an unknown status with a fee above 2^32
ListWTs ==
    { SidechainWT(0, <<>>, Amount(0), Amount(f), WT_UNSPENT, ZeroHash) : f \in {1, 3, 5} }
    \cup { SidechainWT(0, <<>>, Amount(0), Amount(3), st, ZeroHash) :
             st \in {WT_SPENT, WT_IN_WTPRIME} }
    \cup { SidechainWT(0, <<>>, Amount(0), <<1, 0, 1, 0>>, 120, ZeroHash) }

\* The caller's list
Load(v) ==
    /\ listOp = "none"
    /\ vWTIn' = v
    /\ vWT' = v
    /\ listOp' = "loaded"
    /\ UNCHANGED <<addrVars, frameVars>>

\* SelectUnspentWT(vWT)
Select ==
    /\ listOp # "none"
    /\ vWTIn' = vWT
    /\ vWT' = SelectUnspentWT(vWT)
    /\ listOp' = "SelectUnspentWT"
    /\ UNCHANGED <<addrVars, frameVars>>

\* SortWTByFee(vWT)
Sort ==
    /\ listOp # "none"
    /\ vWTIn' = vWT
    /\ vWT' \in SortWTByFee(vWT)
    /\ listOp' = "SortWTByFee"
    /\ UNCHANGED <<addrVars, frameVars>>

InitList ==
    /\ build = CHOOSE b \in Builds : b.name = "LP64"
    /\ thisSidechain = 0
    /\ AddrIdle /\ FrameIdle /\ ListIdle

NextList ==
    \/ \E v \in SeqsUpTo(ListWTs, MaxListLen) : Load(v)
    \/ Select
    \/ Sort

SpecList == InitList /\ [][NextList]_vars

----------------------------------------------------------------------------
(* Claims about the list helpers *)

\* The positions of vWTIn that hold an unspent WT
UnspentAt == { i \in 1..Len(vWTIn) : vWTIn[i].status = WT_UNSPENT }

\* The k-th smallest element of a set of numbers
Kth(S, k) == CHOOSE i \in S : Cardinality({ j \in S : j < i }) = k - 1

\* C7: SelectUnspentWT. Afterwards the list is exactly the subsequence of the
\* input's elements whose status is WT_UNSPENT, in their original order and
\* unchanged; every element with another status is gone.
SelectKeepsExactlyUnspent ==
    listOp = "SelectUnspentWT" =>
        /\ Len(vWT) = Cardinality(UnspentAt)
        /\ \A k \in 1..Len(vWT) : vWT[k] = vWTIn[Kth(UnspentAt, k)]

\* The statuses Unspent, Spent, Pending, Unspent with different fees leave the
\* first and the last element, in that order
SelectKeepsExactlyUnspentWitness ==
    /\ listOp = "SelectUnspentWT"
    /\ Len(vWTIn) = 4
    /\ [i \in 1..4 |-> vWTIn[i].status] = <<WT_UNSPENT, WT_SPENT, WT_IN_WTPRIME, WT_UNSPENT>>
    /\ vWTIn[1].mainchainFee # vWTIn[4].mainchainFee
    /\ vWT = <<vWTIn[1], vWTIn[4]>>

\* How often x occurs in v
Count(v, x) == Cardinality({ i \in 1..Len(v) : v[i] = x })

\* a < b for non-negative amounts, most significant limb first
FeeLess(a, b) ==
    \E k \in 1..4 : a[k] < b[k] /\ \A j \in (k + 1)..4 : a[j] = b[j]

\* C8: SortWTByFee. Afterwards the list is a permutation of the input (same
\* elements, same multiplicities, nothing changed) and no element is preceded
\* by one with a smaller mainchainFee.
SortedByFeeDescending ==
    listOp = "SortWTByFee" =>
        /\ Len(vWT) = Len(vWTIn)
        /\ \A x \in Range(vWTIn) \cup Range(vWT) : Count(vWT, x) = Count(vWTIn, x)
        /\ \A i, j \in 1..Len(vWT) :
              i < j => ~FeeLess(vWT[i].mainchainFee, vWT[j].mainchainFee)

\* The fees 5, 1, 3 came out as 5, 3, 1
SortedByFeeDescendingWitness ==
    /\ listOp = "SortWTByFee"
    /\ [i \in 1..Len(vWTIn) |-> vWTIn[i].mainchainFee] = <<Amount(5), Amount(1), Amount(3)>>
    /\ [i \in 1..Len(vWT) |-> vWT[i].mainchainFee] = <<Amount(5), Amount(3), Amount(1)>>

====
